---- MODULE Spec2Model ----
(***************************************************************************)
(* SyncPushPull: syncit.py (PushTo, MonitorRemote, PullFrom) and the       *)
(* companion remote watcher monitorRemote.py.                              *)
(*                                                                         *)
(* Directory paths of the push side and of the watcher are sequences of    *)
(* path components (os.path.commonpath / relpath work component-wise);     *)
(* what travels over the ssh channel and through MonitorRemote.queue is a  *)
(* sequence of characters.                                                 *)
(***************************************************************************)
EXTENDS Naturals, Integers, Sequences, FiniteSets

VARIABLES
    \* ---- PushTo.runIt (one coordinator) ----
    pc,             \* position in PushTo.runIt: off, init, initRun, get, sleep,
                    \* drain, sync, syncRun
    q,              \* inotify.queue of the watched local tree
    sources,        \* the DirtySet
    src,            \* common path of the cycle
    relpath,        \* src relative to dirRoot
    tgtIdx,         \* position of the for-loop over targets
    qClearSources,  \* the cycle's success flag
    healed,         \* environment: from now on every rsync returns 0
    sleepTime,      \* args.pushDelay, in ticks of 0.1 s
    timer,          \* the debounce sleep: ticks until t0 + sleepTime when it
                    \* began, dt, ticks slept
    running,        \* rsync child processes of PushTo that have not ended
    calls,          \* history: rsyncTo invocations of the current cycle
    cycleDirs,      \* history: directories dequeued in the current cycle
    startEmpty,     \* history: the DirtySet was empty when the cycle began
    prevFailed,     \* history: the last finished cycle was not fully successful
    prevSources,    \* history: the DirtySet the last finished cycle synced
    \* ---- monitorRemote.py (the remote watcher process) ----
    wpc,            \* off, get, sleep, drain
    wq,             \* the watcher's inotify queue
    wsources,       \* the watcher's per-cycle set of directories
    delay,          \* the watcher's args.delay (args.pullDelay), in ticks
    wtimer,         \* the watcher's debounce sleep
    \* ---- the ssh channel ----
    chan,           \* the pipe: the line written and not yet read, if any
    \* ---- MonitorRemote.runIt (the bridge) ----
    mpc,            \* idle, popen, read, sleep, exit, dead
    cnt,            \* the for-loop variable: closures handled so far
    launches,       \* history: Popen calls made
    closures,       \* history: channel closures seen
    nSentinel,      \* history: sentinels enqueued
    \* ---- PullFrom.runIt ----
    ppc,            \* off, start, baseline, baselineRun, get, handle, handleRun
    prunning,       \* rsync child processes of PullFrom that have not ended
    queue,          \* MonitorRemote.queue
    path,           \* the entry dequeued last
    pcalls,         \* history: rsyncFrom invocations since the last dequeue
    \* ---- Supervisor ----
    fault           \* an exception reached Thread.waitForException

pushVars == <<pc, q, sources, src, relpath, tgtIdx, qClearSources, healed,
              sleepTime, timer, running,
              calls, cycleDirs, startEmpty, prevFailed, prevSources>>
pullVars == <<wpc, wq, wsources, delay, wtimer, chan, mpc, cnt, launches,
              closures, nSentinel, ppc, prunning, queue, path, pcalls, fault>>
vars == <<pushVars, pullVars>>

(***************************************************************************)
(* Bounds and configuration of the checked instance.                       *)
(***************************************************************************)
MaxQueue == 2       \* events / entries a queue holds at once
Retries == 2        \* args.retries of the instance
MaxAge == 2         \* ticks an event may have waited when q.get() returns it

MinSleep == 1       \* the 0.1 s floor of the debounce sleep, one tick
Delays == {0, 2}    \* values of --pushDelay / --pullDelay, in ticks

dirRoot == <<"r">>                          \* the watched tree, /r
Targets == << <<"t1">>, <<"t2">> >>         \* pushTo: [t1, t2]

\* Change events of the local tree: (path, whether it is a directory now).
Events ==
    { [fn |-> <<"r">>,                isdir |-> TRUE ],
      [fn |-> <<"r","a","b">>,        isdir |-> TRUE ],
      [fn |-> <<"r","a","b","c","f">>, isdir |-> FALSE],
      [fn |-> <<"r","a","d","f">>,    isdir |-> FALSE] }

(***************************************************************************)
(* os.path on component sequences.                                         *)
(***************************************************************************)
IsPrefix(s, t) == Len(s) <= Len(t) /\ SubSeq(t, 1, Len(s)) = s

Max(S) == CHOOSE n \in S : \A m \in S : m <= n

Min(S) == CHOOSE x \in S : \A y \in S : x <= y

\* os.path.dirname
Dirname(p) == SubSeq(p, 1, Len(p) - 1)

\* fn if os.path.isdir(fn) else os.path.dirname(fn)
DirOf(e) == IF e.isdir THEN e.fn ELSE Dirname(e.fn)

\* number of leading components all paths of S share
CommonLen(S) ==
    LET p == CHOOSE x \in S : TRUE
    IN  Max({n \in 0..Len(p) :
               \A x \in S : Len(x) >= n /\ SubSeq(x, 1, n) = SubSeq(p, 1, n)})

\* os.path.commonpath
CommonPath(S) ==
    LET p == CHOOSE x \in S : TRUE
    IN  SubSeq(p, 1, CommonLen(S))

\* os.path.relpath(p, start=start): ".." for each component of start below
\* the common prefix, then the rest of p; "." when nothing is left
RelPath(p, start) ==
    LET n    == CommonLen({p, start})
        up   == [k \in 1..(Len(start) - n) |-> ".."]
        rest == SubSeq(p, n + 1, Len(p))
    IN  IF up \o rest = <<>> THEN <<".">> ELSE up \o rest

\* os.path.join(a, b) for a relative b
Join(a, b) == a \o b

(***************************************************************************)
(* PushTo.runIt                                                            *)
(***************************************************************************)
\* rsyncTo's return value: sp.returncode == 0
Outcomes == IF healed THEN {TRUE} ELSE BOOLEAN

SourcesAfterAlwaysClear(clear, s) == {}

SourcesAfterNeverClear(clear, s) == s

\* if qClearSources: sources = set()
SourcesAfter(clear, s) == IF clear THEN {} ELSE s

DestinationAlwaysJoin(tgt, rel) == Join(tgt, rel)

\* if relpath != ".": tgt = os.path.join(tgt, relpath)
Destination(tgt, rel) == IF rel # <<".">> THEN Join(tgt, rel) ELSE tgt

LoopDoneBreakOnFailure(k, ok) == k = Len(Targets) \/ ~ok

\* for tgt in targets: the loop ends after the last target, whatever rsyncTo
\* returned
LoopDone(k, ok) == k = Len(Targets)

DtNoFloor(t0MinusNow, d) == t0MinusNow + d

\* dt = max(t0 - time.time() + sleepTime, 0.1)
Dt(t0MinusNow, d) == Max({t0MinusNow + d, MinSleep})

NoTimer == [due |-> 0, dt |-> 0, slept |-> 0]

\* The clock readings of one debounce sleep. The event is age ticks old:
\* t0 + d lies due ticks ahead (0 when it has passed), and dt is slept.
StartTimer(age, d) ==
    [due |-> Max({d - age, 0}), dt |-> Dt(0 - age, d), slept |-> 0]

\* one tick later
Ticked(t) == [t EXCEPT !.slept = t.slept + 1]

RunPcNoWait(p) == p

\* subprocess.run(cmd, ...) returns only when the child has ended
RunPc(p) == IF p = "init" THEN "initRun" ELSE "syncRun"

AddDirDropped(s, d) == s

\* sources.add(dirname)
AddDir(s, d) == s \cup {d}

\* PushTo.runIt as started (or not) for one entry of the configuration
PushStart(p, d) ==
    /\ pc = p
    /\ sleepTime = d
    /\ timer = NoTimer
    /\ running = 0
    /\ q = <<>>
    /\ sources = {dirRoot}
    /\ src = dirRoot
    /\ relpath = <<".">>
    /\ tgtIdx = 1
    /\ qClearSources = TRUE
    /\ healed = FALSE
    /\ calls = <<>>
    /\ cycleDirs = {}
    /\ startEmpty = FALSE
    /\ prevFailed = FALSE
    /\ prevSources = {}

\* the instance checked per coordinator runs with the shortest delay
PushInit == PushStart("init", Min(Delays))

\* INotify delivers an event; it may do so whatever the coordinator is doing.
\* w records that the event arrived during the debounce sleep.
Event(e) ==
    /\ pc # "off"
    /\ Len(q) < MaxQueue
    /\ q' = Append(q, [fn |-> e.fn, isdir |-> e.isdir, w |-> (pc = "sleep")])
    /\ UNCHANGED <<pc, sources, src, relpath, tgtIdx, qClearSources, healed,
                   sleepTime, timer, running,
                   calls, cycleDirs, startEmpty, prevFailed, prevSources>>
    /\ UNCHANGED pullVars

\* The link recovers: every later transfer succeeds.
Heal ==
    /\ pc # "off"
    /\ ~healed
    /\ healed' = TRUE
    /\ UNCHANGED <<pc, q, sources, src, relpath, tgtIdx, qClearSources,
                   sleepTime, timer, running,
                   calls, cycleDirs, startEmpty, prevFailed, prevSources>>
    /\ UNCHANGED pullVars

\* rsyncTo(src, tgt) of the initial for-loop starts its rsync
InitCall ==
    /\ pc = "init"
    /\ running' = running + 1
    /\ pc' = RunPc(pc)
    /\ UNCHANGED <<q, sources, src, relpath, tgtIdx, qClearSources, healed,
                   sleepTime, timer,
                   calls, cycleDirs, startEmpty, prevFailed, prevSources>>
    /\ UNCHANGED pullVars

\* That rsync ends and rsyncTo returns: one pass of the initial for-loop is
\* done; after the last target, "if qClearSources: sources = set()".
InitSync ==
    /\ pc = "initRun"
    /\ running' = running - 1
    /\ \E ok \in Outcomes :
         LET clear == qClearSources /\ ok
         IN  /\ calls' = Append(calls, [cycle |-> "INIT", k |-> tgtIdx,
                                        src |-> src, dst |-> Targets[tgtIdx],
                                        ok |-> ok])
             /\ qClearSources' = clear
             /\ IF LoopDone(tgtIdx, ok)
                  THEN /\ sources' = SourcesAfter(clear, sources)
                       /\ prevFailed' = ~clear
                       /\ prevSources' = sources
                       /\ tgtIdx' = 1
                       /\ pc' = "get"
                  ELSE /\ tgtIdx' = tgtIdx + 1
                       /\ pc' = "init"
                       /\ UNCHANGED <<sources, prevFailed, prevSources>>
    /\ UNCHANGED <<q, src, relpath, healed, sleepTime, timer,
                   cycleDirs, startEmpty>>
    /\ UNCHANGED pullVars

\* (t0, fn) = q.get(); sources.add(dirname): blocks until an event is queued
\* The event's timestamp t0 lies age ticks before time.time();
\* dt = max(t0 - time.time() + sleepTime, 0.1); time.sleep(dt) begins.
Get ==
    /\ pc = "get"
    /\ q # <<>>
    /\ sources' = AddDir(sources, DirOf(Head(q)))
    /\ q' = Tail(q)
    /\ \E age \in 0..MaxAge : timer' = StartTimer(age, sleepTime)
    /\ pc' = "sleep"
    /\ calls' = <<>>
    /\ cycleDirs' = {DirOf(Head(q))}
    /\ startEmpty' = (sources = {})
    /\ UNCHANGED <<src, relpath, tgtIdx, qClearSources, healed,
                   sleepTime, running, prevFailed, prevSources>>
    /\ UNCHANGED pullVars

\* time.sleep(dt) returns, once dt has passed
Wake ==
    /\ pc = "sleep"
    /\ timer.slept >= timer.dt
    /\ timer' = NoTimer
    /\ pc' = "drain"
    /\ UNCHANGED <<q, sources, src, relpath, tgtIdx, qClearSources, healed,
                   sleepTime, running,
                   calls, cycleDirs, startEmpty, prevFailed, prevSources>>
    /\ UNCHANGED pullVars

\* while not q.empty(): (t0, fn) = q.get(); sources.add(dirname)
Drain ==
    /\ pc = "drain"
    /\ q # <<>>
    /\ sources' = AddDir(sources, DirOf(Head(q)))
    /\ cycleDirs' = cycleDirs \cup {DirOf(Head(q))}
    /\ q' = Tail(q)
    /\ UNCHANGED <<pc, src, relpath, tgtIdx, qClearSources, healed,
                   sleepTime, timer, running,
                   calls, startEmpty, prevFailed, prevSources>>
    /\ UNCHANGED pullVars

\* q.empty() holds: src = commonpath(sources); relpath = relpath(src, dirRoot);
\* qClearSources = True
DrainDone ==
    /\ pc = "drain"
    /\ q = <<>>
    /\ src' = CommonPath(sources)
    /\ relpath' = RelPath(CommonPath(sources), dirRoot)
    /\ qClearSources' = TRUE
    /\ tgtIdx' = 1
    /\ pc' = "sync"
    /\ UNCHANGED <<q, sources, healed, sleepTime, timer, running,
                   calls, cycleDirs, startEmpty, prevFailed, prevSources>>
    /\ UNCHANGED pullVars

\* rsyncTo(src, tgt or tgt/relpath) of the steady for-loop starts its rsync
SyncCall ==
    /\ pc = "sync"
    /\ running' = running + 1
    /\ pc' = RunPc(pc)
    /\ UNCHANGED <<q, sources, src, relpath, tgtIdx, qClearSources, healed,
                   sleepTime, timer,
                   calls, cycleDirs, startEmpty, prevFailed, prevSources>>
    /\ UNCHANGED pullVars

\* That rsync ends and rsyncTo returns: one pass of the steady for-loop is
\* done; after the last target, "if qClearSources: sources = set()".
Sync ==
    /\ pc = "syncRun"
    /\ running' = running - 1
    /\ \E ok \in Outcomes :
         LET clear == qClearSources /\ ok
         IN  /\ calls' = Append(calls, [cycle |-> "STEADY", k |-> tgtIdx,
                                        src |-> src,
                                        dst |-> Destination(Targets[tgtIdx], relpath),
                                        ok |-> ok])
             /\ qClearSources' = clear
             /\ IF LoopDone(tgtIdx, ok)
                  THEN /\ sources' = SourcesAfter(clear, sources)
                       /\ prevFailed' = ~clear
                       /\ prevSources' = sources
                       /\ tgtIdx' = 1
                       /\ pc' = "get"
                  ELSE /\ tgtIdx' = tgtIdx + 1
                       /\ pc' = "sync"
                       /\ UNCHANGED <<sources, prevFailed, prevSources>>
    /\ UNCHANGED <<q, src, relpath, healed, sleepTime, timer,
                   cycleDirs, startEmpty>>
    /\ UNCHANGED pullVars

\* the coordinator's own steps
PushStep ==
    InitCall \/ InitSync \/ Get \/ Wake \/ Drain \/ DrainDone \/ SyncCall \/ Sync

(***************************************************************************)
(* Text on the wire: sequences of one-character strings.  "0xFF" stands    *)
(* for one byte that is not valid UTF-8.                                   *)
(***************************************************************************)
hostname == <<"h">>                 \* pullFrom: ["h:/w"]
directory == <<"/", "w">>
localTgt == <<"/", "l">>            \* PullFrom's dirRoot, /l

Whitespace == {" ", "\n"}

\* Change events of the remote tree /w.
WEvents ==
    { [fn |-> <<"w">>,          isdir |-> TRUE ],
      [fn |-> <<"w","a","f">>,  isdir |-> FALSE] }

\* What else arrives on the merged stdout/stderr stream of the ssh process.
NoiseLines ==
    { <<":", "/", "w", "/", "a", "\n">>,
      <<":", ".", "\n">>,
      <<":", "0xFF", "\n">>,
      <<"g", "\n">> }

\* An absolute path as text; every component is one character long.
PathStr(p) ==
    IF p = <<>> THEN <<"/">>
    ELSE [k \in 1..(2 * Len(p)) |-> IF k % 2 = 1 THEN "/" ELSE p[k \div 2]]

\* print(f"src:{src}")
PrintLine(p) == <<"s", "r", "c", ":">> \o PathStr(p) \o <<"\n">>

ReMatchSearch(line) ==
    LET n  == Len(line)
        Is == {i \in 1..n : line[i] = ":" /\ i + 1 < n}
    IN  IF Is # {} /\ line[n] = "\n"
          THEN [ok |-> TRUE,  grp |-> SubSeq(line, (CHOOSE i \in Is : \A j \in Is : i <= j) + 1, n - 1)]
          ELSE [ok |-> FALSE, grp |-> <<>>]

\* re.match(b"^:(.+)\s+$", line): ":" first, then the longest run of
\* non-newline bytes that still leaves one or more whitespace bytes before
\* the end of the line ($ also matches just before a final newline).
ReMatch(line) ==
    LET n    == Len(line)
        Ends == {m \in 1..n : m = n \/ (m = n - 1 /\ line[n] = "\n")}
        Ks   == {k \in 2..n :
                   /\ \A j \in 2..k : line[j] # "\n"
                   /\ \E m \in Ends : m > k /\ \A j \in (k+1)..m : line[j] \in Whitespace}
    IN  IF n >= 1 /\ line[1] = ":" /\ Ks # {}
          THEN [ok |-> TRUE,  grp |-> SubSeq(line, 2, Max(Ks))]
          ELSE [ok |-> FALSE, grp |-> <<>>]

Utf8Valid(b) == \A k \in 1..Len(b) : b[k] # "0xFF"

\* try: fn = str(matches[1], "utf-8") / except: fn = matches[1]
BridgeDecode(b) ==
    IF Utf8Valid(b) THEN [type |-> "str", val |-> b]
                    ELSE [type |-> "bytes", val |-> b]

\* (time.time(), None)
Sentinel == [type |-> "tuple", val |-> <<>>]

LoopContinuesOffByOne(c) == c <= Retries

\* for cnt in range(args.retries)
LoopContinues(c) == c < Retries

NextCntStuck(c) == c

\* the for-loop takes the next value of range(args.retries)
NextCnt(c) == c + 1

BaselineCallsNone == <<>>

\* the one transfer of the initial sync: rsyncFrom(src, tgt)
BaselineCalls == << [src |-> hostname \o <<":">> \o directory, dst |-> localTgt] >>

NextIter(c) == IF LoopContinues(c) THEN "popen" ELSE "exit"

\* Python's ~ on a bool: ~True = -2, ~False = -1
BitNot(b) == IF b THEN -2 ELSE -1

\* truth value of an int
Truthy(n) == n # 0

StrConvLenient(p) == [ok |-> TRUE, val |-> p.val]

\* str(path, "UTF-8"): TypeError unless path is bytes, UnicodeDecodeError
\* when the bytes are not UTF-8
StrConv(p) ==
    IF p.type = "bytes" /\ Utf8Valid(p.val)
      THEN [ok |-> TRUE, val |-> p.val]
      ELSE [ok |-> FALSE, val |-> <<>>]

\* os.path.join on text
JoinStr(a, b) ==
    IF b # <<>> /\ b[1] = "/" THEN b
    ELSE IF a = <<>> \/ a[Len(a)] = "/" THEN a \o b
    ELSE a \o <<"/">> \o b

\* The body of PullFrom's try block for the dequeued entry p: the rsyncFrom
\* invocations it makes (none when an exception is caught).
HandleCalls(p) ==
    LET conv == IF Truthy(BitNot(p.type = "str"))
                  THEN StrConv(p)
                  ELSE [ok |-> TRUE, val |-> p.val]
    IN  IF ~conv.ok THEN <<>>
        ELSE IF conv.val = <<".">>
          THEN << [src |-> hostname \o <<":">> \o directory, dst |-> localTgt] >>
          ELSE << [src |-> hostname \o <<":">> \o JoinStr(directory, conv.val),
                   dst |-> JoinStr(localTgt, conv.val)] >>

\* PullFrom.runIt as started (or not) for one entry of the configuration
PullBegin(p, d) ==
    /\ ppc = p
    /\ delay = d
    /\ wtimer = NoTimer
    /\ closures = 0
    /\ nSentinel = 0
    /\ prunning = 0
    /\ wpc = "off"
    /\ wq = <<>>
    /\ wsources = {}
    /\ chan = <<>>
    /\ mpc = "idle"
    /\ cnt = 0
    /\ launches = 0
    /\ queue = <<>>
    /\ path = Sentinel
    /\ pcalls = <<>>
    /\ fault = FALSE

PullIdle == PullBegin("start", Min(Delays))

Init == PushInit /\ PullIdle

(***************************************************************************)
(* monitorRemote.py, running on the remote host while the session is up    *)
(***************************************************************************)
WEvent(e) ==
    /\ wpc # "off"
    /\ Len(wq) < MaxQueue
    /\ wq' = Append(wq, e)
    /\ UNCHANGED <<wpc, wsources, chan, mpc, cnt, launches,
                   ppc, queue, path, pcalls, fault>>
    /\ UNCHANGED <<delay, wtimer, closures, nSentinel, prunning>>
    /\ UNCHANGED pushVars

\* (t0, fn) = q.get(); sources = set(); sources.add(...);
\* dt = max(0.1, t0 - time.time() + delay); time.sleep(dt) begins
WGet ==
    /\ wpc = "get"
    /\ wq # <<>>
    /\ wsources' = {DirOf(Head(wq))}
    /\ wq' = Tail(wq)
    /\ wpc' = "sleep"
    /\ UNCHANGED <<chan, mpc, cnt, launches,
                   ppc, queue, path, pcalls, fault>>
    /\ \E age \in 0..MaxAge : wtimer' = StartTimer(age, delay)
    /\ UNCHANGED <<delay, closures, nSentinel, prunning>>
    /\ UNCHANGED pushVars

\* time.sleep(dt) returns, once dt has passed
WWake ==
    /\ wpc = "sleep"
    /\ wpc' = "drain"
    /\ UNCHANGED <<wq, wsources, chan, mpc, cnt, launches,
                   ppc, queue, path, pcalls, fault>>
    /\ wtimer.slept >= wtimer.dt
    /\ wtimer' = NoTimer
    /\ UNCHANGED <<delay, closures, nSentinel, prunning>>
    /\ UNCHANGED pushVars

\* while not q.empty(): ... sources.add(...)
WDrain ==
    /\ wpc = "drain"
    /\ wq # <<>>
    /\ wsources' = wsources \cup {DirOf(Head(wq))}
    /\ wq' = Tail(wq)
    /\ UNCHANGED <<wpc, chan, mpc, cnt, launches,
                   ppc, queue, path, pcalls, fault>>
    /\ UNCHANGED <<delay, wtimer, closures, nSentinel, prunning>>
    /\ UNCHANGED pushVars

\* src = os.path.commonpath(sources); print(f"src:{src}")
WPrint ==
    /\ wpc = "drain"
    /\ wq = <<>>
    /\ chan = <<>>
    /\ chan' = Append(chan, PrintLine(CommonPath(wsources)))
    /\ wpc' = "get"
    /\ UNCHANGED <<wq, wsources, mpc, cnt, launches,
                   ppc, queue, path, pcalls, fault>>
    /\ UNCHANGED <<delay, wtimer, closures, nSentinel, prunning>>
    /\ UNCHANGED pushVars

\* Anything else written to the stream (stderr is merged into stdout).
Noise(l) ==
    /\ mpc = "read"
    /\ chan = <<>>
    /\ chan' = Append(chan, l)
    /\ UNCHANGED <<wpc, wq, wsources, mpc, cnt, launches,
                   ppc, queue, path, pcalls, fault>>
    /\ UNCHANGED <<delay, wtimer, closures, nSentinel, prunning>>
    /\ UNCHANGED pushVars

(***************************************************************************)
(* MonitorRemote.runIt                                                     *)
(***************************************************************************)
\* subprocess.Popen(cmd, ...) starts ssh and, through it, the watcher
Popen ==
    /\ mpc = "popen"
    /\ launches' = launches + 1
    /\ mpc' = "read"
    /\ wpc' = "get"
    /\ wq' = <<>>
    /\ wsources' = {}
    /\ chan' = <<>>
    /\ UNCHANGED <<cnt, ppc, queue, path, pcalls, fault>>
    /\ UNCHANGED <<delay, wtimer, closures, nSentinel, prunning>>
    /\ UNCHANGED pushVars

\* subprocess.Popen raises (OSError): nothing in runIt catches it, the thread
\* ends and the exception reaches Thread.waitForException
PopenRaises ==
    /\ mpc = "popen"
    /\ launches' = launches + 1
    /\ mpc' = "dead"
    /\ fault' = TRUE
    /\ UNCHANGED <<wpc, wq, wsources, chan, cnt,
                   ppc, queue, path, pcalls>>
    /\ UNCHANGED <<delay, wtimer, closures, nSentinel, prunning>>
    /\ UNCHANGED pushVars

\* line = proc.stdout.readline(); one pass of the inner while-loop
ReadLine ==
    /\ mpc = "read"
    /\ chan # <<>>
    /\ LET line == Head(chan)
           m    == ReMatch(line)
       IN  IF m.ok
             THEN /\ Len(queue) < MaxQueue
                  /\ queue' = Append(queue, BridgeDecode(m.grp))
             ELSE queue' = queue
    /\ chan' = Tail(chan)
    /\ UNCHANGED <<wpc, wq, wsources, mpc, cnt, launches,
                   ppc, path, pcalls, fault>>
    /\ UNCHANGED <<delay, wtimer, closures, nSentinel, prunning>>
    /\ UNCHANGED pushVars

\* readline returns b"": the channel is closed, the with-block ends the
\* remote process
Eof ==
    /\ mpc = "read"
    /\ chan = <<>>
    /\ mpc' = "sleep"
    /\ wpc' = "off"
    /\ wq' = <<>>
    /\ wsources' = {}
    /\ UNCHANGED <<chan, cnt, launches,
                   ppc, queue, path, pcalls, fault>>
    /\ wtimer' = NoTimer
    /\ closures' = closures + 1
    /\ UNCHANGED <<delay, nSentinel, prunning>>
    /\ UNCHANGED pushVars

\* time.sleep(args.retrySleep) returns; q.put((time.time(), None)); next pass
\* of the for-loop, or "Exiting"
SleepDone ==
    /\ mpc = "sleep"
    /\ Len(queue) < MaxQueue
    /\ queue' = Append(queue, Sentinel)
    /\ cnt' = NextCnt(cnt)
    /\ mpc' = NextIter(NextCnt(cnt))
    /\ UNCHANGED <<wpc, wq, wsources, chan, launches,
                   ppc, path, pcalls, fault>>
    /\ nSentinel' = nSentinel + 1
    /\ UNCHANGED <<delay, wtimer, closures, prunning>>
    /\ UNCHANGED pushVars

(***************************************************************************)
(* PullFrom.runIt                                                          *)
(***************************************************************************)
\* monitor = MonitorRemote(...); monitor.start(); q = monitor.queue
PullStart ==
    /\ ppc = "start"
    /\ mpc' = NextIter(0)
    /\ ppc' = "baseline"
    /\ UNCHANGED <<wpc, wq, wsources, chan, cnt, launches,
                   queue, path, pcalls, fault>>
    /\ UNCHANGED <<delay, wtimer, closures, nSentinel, prunning>>
    /\ UNCHANGED pushVars

\* self.rsyncFrom(src, tgt), the initial sync, starts its rsync
Baseline ==
    /\ ppc = "baseline"
    /\ pcalls' = BaselineCalls
    /\ prunning' = prunning + 1
    /\ ppc' = "baselineRun"
    /\ UNCHANGED <<wpc, wq, wsources, chan, mpc, cnt, launches,
                   queue, path, fault>>
    /\ UNCHANGED <<delay, wtimer, closures, nSentinel>>
    /\ UNCHANGED pushVars

\* subprocess.run in rsyncFrom returns: the rsync has ended, and the
\* coordinator goes (back) to q.get()
RsyncFromDone ==
    /\ ppc \in {"baselineRun", "handleRun"}
    /\ prunning' = prunning - 1
    /\ ppc' = "get"
    /\ UNCHANGED <<wpc, wq, wsources, chan, mpc, cnt, launches,
                   queue, path, pcalls, fault>>
    /\ UNCHANGED <<delay, wtimer, closures, nSentinel>>
    /\ UNCHANGED pushVars

\* path = q.get()
PullGet ==
    /\ ppc = "get"
    /\ queue # <<>>
    /\ path' = Head(queue)
    /\ queue' = Tail(queue)
    /\ pcalls' = <<>>
    /\ ppc' = "handle"
    /\ UNCHANGED <<wpc, wq, wsources, chan, mpc, cnt, launches, fault>>
    /\ UNCHANGED <<delay, wtimer, closures, nSentinel, prunning>>
    /\ UNCHANGED pushVars

\* the try/except block: an exception is caught and q.task_done() follows,
\* or rsyncFrom starts its rsync
PullHandle ==
    /\ ppc = "handle"
    /\ pcalls' = HandleCalls(path)
    /\ IF HandleCalls(path) = <<>>
         THEN /\ ppc' = "get"
              /\ prunning' = prunning
         ELSE /\ ppc' = "handleRun"
              /\ prunning' = prunning + 1
    /\ UNCHANGED <<wpc, wq, wsources, chan, mpc, cnt, launches,
                   queue, path, fault>>
    /\ UNCHANGED <<delay, wtimer, closures, nSentinel>>
    /\ UNCHANGED pushVars

(***************************************************************************)
(* Specifications                                                          *)
(***************************************************************************)
\* 0.1 s passes: every time.sleep in progress has slept one tick more
Tick ==
    /\ \/ pc = "sleep" /\ timer.slept < timer.dt
       \/ wpc = "sleep" /\ wtimer.slept < wtimer.dt
    /\ timer' = IF pc = "sleep" /\ timer.slept < timer.dt
                  THEN Ticked(timer) ELSE timer
    /\ wtimer' = IF wpc = "sleep" /\ wtimer.slept < wtimer.dt
                   THEN Ticked(wtimer) ELSE wtimer
    /\ UNCHANGED <<pc, q, sources, src, relpath, tgtIdx, qClearSources, healed,
                   sleepTime, running,
                   calls, cycleDirs, startEmpty, prevFailed, prevSources>>
    /\ UNCHANGED <<wpc, wq, wsources, delay, chan, mpc, cnt, launches,
                   closures, nSentinel, ppc, prunning, queue, path, pcalls, fault>>

PushNext ==
    \/ \E e \in Events : Event(e)
    \/ Heal
    \/ Tick
    \/ InitCall
    \/ InitSync
    \/ Get
    \/ Wake
    \/ Drain
    \/ DrainDone
    \/ SyncCall
    \/ Sync

\* One PushTo coordinator with its event source.
PushSpec == Init /\ [][PushNext]_vars

\* The coordinator's own steps are taken when they can be; events and the
\* recovery of the link are up to the environment.
FairPushSpec ==
    PushSpec /\ WF_vars(PushStep) /\ WF_vars(Tick)

PullNext ==
    \/ Tick
    \/ \E e \in WEvents : WEvent(e)
    \/ WGet
    \/ WWake
    \/ WDrain
    \/ WPrint
    \/ \E l \in NoiseLines : Noise(l)
    \/ Popen
    \/ PopenRaises
    \/ ReadLine
    \/ Eof
    \/ SleepDone
    \/ PullStart
    \/ Baseline
    \/ RsyncFromDone
    \/ PullGet
    \/ PullHandle

\* One PullFrom coordinator with its bridge, the channel and the watcher.
PullSpec == Init /\ [][PullNext]_vars

Next == PushNext \/ PullNext

\* One entry of the configuration: a pushTo entry starts a PushTo thread, a
\* pullFrom entry a PullFrom thread; the delay is the value of --pushDelay,
\* respectively --pullDelay.
EntryInit ==
    \E d \in Delays :
        \/ PushStart("init", d) /\ PullBegin("off", d)
        \/ PushStart("off", d) /\ PullBegin("start", d)

\* Either coordinator, under each delay.
EntrySpec == EntryInit /\ [][Next]_vars

\* One entry of the configuration, pushTo or pullFrom, under the delay of Init.
CoordInit ==
    \/ PushInit /\ PullBegin("off", Min(Delays))
    \/ PushStart("off", Min(Delays)) /\ PullIdle

\* Either coordinator.
CoordSpec == CoordInit /\ [][Next]_vars

Spec == Init /\ [][Next]_vars

(***************************************************************************)
(* Properties                                                              *)
(***************************************************************************)
\* A steady cycle has run all its transfers and the next one has not begun.
CycleComplete == pc = "get" /\ calls # <<>> /\ calls[1].cycle = "STEADY"

\* C1 (PushSpec): after a cycle (INIT or steady) that was not fully
\* successful, the DirtySet stays a superset of that cycle's DirtySet, and
\* the common path of the next cycle is computed from it.
C1_RetryByAccumulation ==
    /\ prevFailed => prevSources \subseteq sources
    /\ pc = "sync" => src = CommonPath(sources)

\* C1 witness: a steady cycle failed and the next cycle syncs a strictly
\* larger DirtySet.
C1_Witness ==
    /\ pc = "sync"
    /\ prevFailed
    /\ dirRoot \notin prevSources
    /\ prevSources # {}
    /\ prevSources # sources

\* C2 (PushSpec): between cycles the DirtySet is empty after a fully
\* successful cycle and is the failed cycle's non-empty DirtySet otherwise;
\* after a full success the next cycle syncs only what it dequeued itself.
C2_FullSuccessClears ==
    /\ (pc = "get" /\ ~prevFailed) => sources = {}
    /\ (pc = "get" /\ prevFailed) => (sources = prevSources /\ sources # {})
    /\ (pc = "sync" /\ ~prevFailed) => sources = cycleDirs

\* C2 witness: a steady cycle in which both targets succeeded has ended.
C2_Witness ==
    /\ CycleComplete
    /\ ~prevFailed
    /\ Len(calls) = Len(Targets)
    /\ sources = {}
    /\ cycleDirs # {}

\* C3 (FairPushSpec): once transfers succeed for good, a retained DirtySet
\* is eventually emptied, whatever events arrive or fail to arrive.
C3_EventualConvergence ==
    (healed /\ pc = "get" /\ sources # {}) ~> (sources = {})

IsWatcherLine(l) == Len(l) >= 5 /\ SubSeq(l, 1, 4) = <<"s", "r", "c", ":">>

\* C4 (PullSpec): whenever the bridge reads a line the watcher printed, it
\* enqueues exactly one entry, the line's path as text.
C4_WireAgreement ==
    [][(mpc = "read" /\ chan # <<>> /\ chan' = Tail(chan) /\ IsWatcherLine(Head(chan)))
         => queue' = Append(queue, [type |-> "str",
                                    val |-> SubSeq(Head(chan), 5, Len(Head(chan)) - 1)])]_vars

\* C5 (PullSpec): once a text notification p has been handled, exactly one
\* transfer was invoked for it: h:/w -> /l for ".", h:/w/p -> /l/p otherwise.
C5_PullDispatch ==
    (ppc = "get" /\ path.type = "str") =>
        pcalls = IF path.val = <<".">>
                   THEN << [src |-> hostname \o <<":">> \o directory, dst |-> localTgt] >>
                   ELSE << [src |-> hostname \o <<":">> \o directory \o <<"/">> \o path.val,
                            dst |-> localTgt \o <<"/">> \o path.val] >>

\* C6 (PullSpec): the watcher is launched at most Retries times; the bridge
\* is in GIVEUP only after Retries closures; and in GIVEUP it stays there,
\* launches nothing and enqueues nothing.
C6_BoundedReconnection ==
    /\ [](launches <= Retries)
    /\ [](mpc = "exit" => (cnt = Retries /\ launches = Retries))
    /\ [][mpc = "exit" =>
            /\ mpc' = "exit"
            /\ launches' = launches
            /\ cnt' = cnt
            /\ Len(queue') <= Len(queue)]_vars

\* C6 witness: the bridge has given up and the coordinator has consumed
\* everything it enqueued.
C6_Witness ==
    /\ mpc = "exit"
    /\ cnt = Retries
    /\ queue = <<>>
    /\ ppc = "get"

\* C7 (PullSpec): a launch that does not lead to STREAMING leads to BACKOFF
\* and raises no fault.
C7_SpawnFailureBacksOff ==
    [][(mpc = "popen" /\ mpc' # "popen" /\ mpc' # "read")
         => (mpc' = "sleep" /\ ~fault')]_vars

\* C8 (PullSpec): the bridge ends its retry loop only with a fault surfaced
\* to the Supervisor.
C8_ExhaustionIsFatal == mpc = "exit" => fault

\* C9 (PushSpec): no event that arrived during a cycle's debounce sleep is
\* still queued once the cycle syncs; a cycle that began with an empty
\* DirtySet invokes rsyncTo once per target, in order, whatever the earlier
\* results, each time with the common path of the directories it dequeued.
C9_CoalescingFanOut ==
    /\ pc \in {"sync", "get"} => \A n \in 1..Len(q) : ~q[n].w
    /\ Len(calls) <= Len(Targets)
    /\ \A n \in 1..Len(calls) : calls[n].k = n
    /\ CycleComplete => Len(calls) = Len(Targets)
    /\ \A n \in 1..Len(calls) :
         (calls[n].cycle = "STEADY" /\ startEmpty)
            => calls[n].src = CommonPath(cycleDirs)

\* C9 witness: three events in different subdirectories were coalesced into
\* one cycle; the first target failed and the second was still invoked, both
\* with the common ancestor /r/a.
C9_Witness ==
    /\ CycleComplete
    /\ startEmpty
    /\ cycleDirs = { <<"r","a","b">>, <<"r","a","b","c">>, <<"r","a","d">> }
    /\ Len(calls) = 2
    /\ ~calls[1].ok
    /\ calls[2].src = <<"r","a">>

\* C10 (PushSpec): in a steady cycle the source lies at or below the tree
\* root, and the destination for target T is T when the source is the root
\* and T followed by the source's components below the root otherwise: T
\* itself or a descendant of T.
C10_RelativeFanOut ==
    \A n \in 1..Len(calls) :
        calls[n].cycle = "STEADY" =>
            LET T == Targets[calls[n].k]
                s == calls[n].src
                d == calls[n].dst
            IN  /\ IsPrefix(dirRoot, s)
                /\ d = IF s = dirRoot THEN T
                       ELSE T \o SubSeq(s, Len(dirRoot) + 1, Len(s))
                /\ IsPrefix(T, d)
                /\ \A j \in 1..Len(d) : d[j] \notin {".", ".."}

\* C10 witness: a steady cycle synced /r/a/b and the second target received
\* it as t2/a/b.
C10_Witness ==
    /\ Len(calls) = 2
    /\ calls[2].cycle = "STEADY"
    /\ calls[2].src = <<"r","a","b">>
    /\ calls[2].dst = <<"t2","a","b">>

\* C11 (PushSpec): INIT invokes rsync once per target, in order, each time
\* from the tree root to the target itself, whatever the earlier results;
\* nothing is dequeued meanwhile; and the DirtySet at the first q.get() is
\* {tree root} if an invocation failed and empty otherwise.
C11_InitFanOut ==
    /\ [](\A n \in 1..Len(calls) :
            calls[n].cycle = "INIT" =>
                /\ calls[n].k = n
                /\ calls[n].src = dirRoot
                /\ calls[n].dst = Targets[n])
    /\ [](pc \in {"init", "initRun"} =>
            /\ Len(calls) = tgtIdx - 1
            /\ sources = {dirRoot})
    /\ []((pc = "get" /\ calls # <<>> /\ calls[1].cycle = "INIT") =>
            /\ Len(calls) = Len(Targets)
            /\ sources = IF \E n \in 1..Len(calls) : ~calls[n].ok
                           THEN {dirRoot} ELSE {})
    /\ [][(pc \in {"init", "initRun"}) => Len(q') >= Len(q)]_vars

\* C11 witness: INIT has ended with the first target failed and the second
\* invoked all the same; the root is retained, and an event that arrived
\* during INIT is still queued.
C11_Witness ==
    /\ pc = "get"
    /\ Len(calls) = 2
    /\ calls[1].cycle = "INIT"
    /\ ~calls[1].ok
    /\ calls[2].ok
    /\ sources = {dirRoot}
    /\ q # <<>>

\* C20 (PushSpec): in the cycle after one that was not fully successful, the
\* source is the failed cycle's source or an ancestor of it, at or below the
\* tree root; when the failed DirtySet held the root (as after a failed
\* INIT) the source is the root and every destination is the target itself.
C20_SourceWidening ==
    (pc \in {"sync", "syncRun"} /\ prevFailed) =>
        /\ IsPrefix(src, CommonPath(prevSources))
        /\ IsPrefix(dirRoot, src)
        /\ dirRoot \in prevSources =>
             /\ src = dirRoot
             /\ \A n \in 1..Len(calls) : calls[n].dst = Targets[calls[n].k]

\* C20 witness: a cycle on /r/a/b/c failed, and after an event in /r/a/d the
\* next cycle syncs their common ancestor /r/a.
C20_Witness ==
    /\ pc = "syncRun"
    /\ prevFailed
    /\ prevSources = { <<"r","a","b","c">> }
    /\ src = <<"r","a">>

\* C13 (PullSpec): when the bridge reads a line that its pattern does not
\* match (any line not starting with ":" is one), it enqueues nothing,
\* raises no fault, uses up no attempt and keeps reading; when it reads ":",
\* a path and a newline, it enqueues one entry, that path.
C13_MismatchNotFatal ==
    [][(mpc = "read" /\ chan # <<>> /\ chan' = Tail(chan)) =>
         LET l == Head(chan)
             n == Len(l)
         IN  /\ (l[1] # ":" \/ ~ReMatch(l).ok) =>
                  /\ queue' = queue
                  /\ fault' = fault
                  /\ cnt' = cnt
                  /\ launches' = launches
                  /\ mpc' = "read"
             /\ (n >= 3 /\ l[1] = ":" /\ l[n] = "\n"
                   /\ \A j \in 2..(n-1) : l[j] \notin Whitespace) =>
                  /\ Len(queue') = Len(queue) + 1
                  /\ SubSeq(queue', 1, Len(queue)) = queue
                  /\ queue'[Len(queue')].val = SubSeq(l, 2, n - 1)]_vars

\* C13 witness: in the first session the watcher printed a line, the bridge
\* read it and is still reading; nothing was enqueued and no attempt used.
C13_Witness ==
    /\ mpc = "read"
    /\ wpc = "get"
    /\ wsources # {}
    /\ chan = <<>>
    /\ queue = <<>>
    /\ ppc \in {"baseline", "baselineRun"}
    /\ cnt = 0
    /\ ~fault

\* C14 (PullSpec): PullFrom starts with one transfer h:/w -> /l; until it
\* has returned nothing is dequeued and no other transfer is invoked, while
\* the bridge, already running, may enqueue; what it enqueues stays queued;
\* and the baseline is never run again.
C14_BaselineFirst ==
    /\ [](ppc \in {"start", "baseline"} => pcalls = <<>>)
    /\ [](ppc = "baselineRun" =>
            /\ pcalls = << [src |-> hostname \o <<":">> \o directory, dst |-> localTgt] >>
            /\ prunning = 1)
    /\ [][(ppc \in {"start", "baseline", "baselineRun"}) =>
            /\ path' = path
            /\ Len(queue') >= Len(queue)
            /\ SubSeq(queue', 1, Len(queue)) = queue]_vars
    /\ [][(ppc' \in {"baseline", "baselineRun"}) =>
            ppc \in {"start", "baseline", "baselineRun"}]_vars
    /\ [][(ppc = "baseline" /\ ppc' # ppc) => ppc' = "baselineRun"]_vars

\* C14 witness: the baseline has returned, nothing was dequeued yet, and the
\* queue holds what the bridge enqueued meanwhile.
C14_Witness ==
    /\ ppc = "get"
    /\ prunning = 0
    /\ pcalls = << [src |-> hostname \o <<":">> \o directory, dst |-> localTgt] >>
    /\ Len(queue) = MaxQueue

\* C15 (PullSpec): whenever the bridge is in its backoff sleep, the sentinel
\* of the closure that led to it is already enqueued, and that closure was
\* not the one that exhausts the attempts.
C15_SentinelBeforeSleep ==
    mpc = "sleep" => (nSentinel = closures /\ closures < Retries)

\* C17 (PullSpec): the attempt counter moves only by +1, once per channel
\* closure, whatever was delivered in the session; it is never reset; and
\* the number of sessions never exceeds Retries.
C17_RetryStateNeverReset ==
    /\ [][cnt' = cnt \/ cnt' = cnt + 1]_vars
    /\ [](cnt = IF mpc = "sleep" THEN closures - 1 ELSE closures)
    /\ [](launches <= cnt + 1)
    /\ [](launches <= Retries)

\* C17 witness: Retries sessions have closed, and in one of them a
\* well-formed line was delivered, which the coordinator has dequeued.
C17_Witness ==
    /\ cnt = Retries
    /\ closures = Retries
    /\ launches = Retries
    /\ path.type = "str"

\* C18 (PullSpec): when PullFrom leaves the handling of a sentinel or of a
\* payload that is not text, it has invoked no transfer, no fault was
\* raised, the queue is untouched and it is back at q.get().
C18_HarmlessEntries ==
    [][(ppc = "handle" /\ ppc' # ppc /\ path.type # "str") =>
         /\ ppc' = "get"
         /\ pcalls' = <<>>
         /\ prunning' = 0
         /\ fault' = fault
         /\ queue' = queue]_vars

\* C18 witness: an undecodable payload was dequeued and handled, the
\* sentinel of a later closure waits in the queue.
C18_Witness ==
    /\ ppc = "get"
    /\ path.type = "bytes"
    /\ pcalls = <<>>
    /\ ~fault
    /\ queue # <<>>
    /\ Head(queue) = Sentinel

\* C12 (EntrySpec): a push cycle leaves its debounce sleep, and a watcher
\* cycle its own, only when at least 0.1 s (one tick) was slept and the
\* first event's timestamp plus the configured delay has been reached; and
\* while it sleeps the push cycle invokes no transfer and the watcher prints
\* no line.
C12_DebounceTiming ==
    /\ [][(pc = "sleep" /\ pc' # pc) =>
            /\ timer.slept >= 1
            /\ timer.slept >= timer.due]_vars
    /\ [][(wpc = "sleep" /\ wpc' = "drain") =>
            /\ wtimer.slept >= 1
            /\ wtimer.slept >= wtimer.due]_vars
    /\ [][(pc = "sleep") => (running' = 0 /\ calls' = <<>>)]_vars
    /\ [][(wpc = "sleep") =>
            ~(chan = <<>> /\ chan' # <<>> /\ IsWatcherLine(chan'[1]))]_vars

\* C12 witness: with delay 0 the first event's t0 + d had passed when it was
\* dequeued; the push cycle has slept its one tick all the same.
C12_Witness ==
    /\ pc = "sleep"
    /\ sleepTime = 0
    /\ timer.due = 0
    /\ timer.dt = 1
    /\ timer.slept = 1

\* C16 (CoordSpec): a coordinator never has two rsync processes; it starts
\* one only when none is running, and it dequeues only when none is running.
C16_SequentialTransfers ==
    /\ [](running \in {0, 1} /\ prunning \in {0, 1})
    /\ [][(running' > running) => running = 0]_vars
    /\ [][(Len(q') < Len(q)) => (running = 0 /\ running' = 0)]_vars
    /\ [][(prunning' > prunning) => prunning = 0]_vars
    /\ [][(Len(queue') < Len(queue)) => (prunning = 0 /\ prunning' = 0)]_vars

\* C16 witness: the rsync for the second target of a cycle is running while
\* the event source has filled the queue.
C16_Witness ==
    /\ pc = "syncRun"
    /\ tgtIdx = 2
    /\ running = 1
    /\ Len(q) = MaxQueue

\* C19 (FairPushSpec): whenever an event is dequeued its directory is in
\* the DirtySet, and stays there up to and during the cycle's transfers,
\* whose source is the common path of that DirtySet; and the queue is not
\* left non-empty: either dequeues go on for ever or the queue ends up empty.
C19_NoEventLost ==
    /\ [][(q # <<>> /\ q' = Tail(q)) => DirOf(Head(q)) \in sources']_vars
    /\ [](pc \in {"sleep", "drain", "sync", "syncRun"} => cycleDirs \subseteq sources)
    /\ [](pc \in {"sync", "syncRun"} => src = CommonPath(sources))
    /\ ([]<><<q # <<>> /\ q' = Tail(q)>>_vars \/ <>[](q = <<>>))

\* C19 witness: events in /r/a/b and /r/a/d were dequeued in one cycle, whose
\* transfer from /r/a is running while a further event waits in the queue.
C19_Witness ==
    /\ pc = "syncRun"
    /\ cycleDirs = { <<"r","a","b">>, <<"r","a","d">> }
    /\ cycleDirs \subseteq sources
    /\ src = <<"r","a">>
    /\ q # <<>>

====
